---- MODULE Spec2Model ----
(***************************************************************************)
(* vapid.party: subscription registry, fixed-window rate limiter and the   *)
(* batched dispatch engine (lib/db.ts, lib/notifications.ts, the subscribe *)
(* and send routes), plus the SQLite registry of the Express generation    *)
(* (src/db/subscriptions.ts).                                              *)
(*                                                                         *)
(* Time is counted in ticks of 30 s, so the 60000 ms rate-limit window is  *)
(* WindowMs = 2 ticks.  The page size of getSubscriptionsByApp (1000) and  *)
(* the dispatch batch size (50) are scaled down to 2 so that a tenant can  *)
(* own more rows than one page / one batch holds.                          *)
(*                                                                         *)
(* Specifications: Spec (registry under concurrent subscribe requests),    *)
(* SpecSequential (subscribe requests of a tenant one at a time),          *)
(* SpecValidate (bodies at the boundaries of SubscribeSchema), SpecB64     *)
(* (the two base64url normalizers on texts), SpecDispatch, SpecFaults and  *)
(* SpecUnanswered (one send under the answers of the push service, a store *)
(* that may fail, a push service that may stay silent), SpecLimiter and    *)
(* SpecDay (the rate-limit gate), SpecVapid (sends of two tenants sharing  *)
(* the web-push module), SpecLegacy (the SQLite registry), SpecGate (the   *)
(* sends of one tenant at the gate, over several windows), SpecCeiling     *)
(* (subscribe requests around maxSubscriptions), SpecLegacySend (the send  *)
(* route and the VAPID key store of the SQLite generation).                *)
(***************************************************************************)
EXTENDS Integers, Sequences, FiniteSets, TLC

VARIABLES
    subscriptions,      \* table subscriptions (Postgres): a set of rows
    rate_limit_logs,    \* table rate_limit_logs: a set of rows
    now,                \* the clock (Date.now() and SQL NOW()), in ticks
    uuid,               \* number of uuidv4() values issued so far
    sub,                \* POST /api/subscribe requests in flight
    send,               \* POST /api/send requests in flight
    rlReturns,          \* what checkAndIncrementRateLimit returned, per call
    calls,              \* number of requests started so far
    legacy,             \* table subscriptions of the SQLite generation
    vapidDetails,       \* the web-push module's process-wide VAPID details
    direct,             \* sendDirectNotification calls in flight
    b64,                \* a key-material text and its normalizations
    vapid_keys,         \* table vapid_keys of the SQLite generation, by id
    vapidConfigured,    \* the Express process's vapidConfigured flag
    keyReturns,         \* public keys returned by getOrCreateVapidKeys, in order
    lsend               \* POST /api/notifications/send request in flight

\* The state of the Express generation's key store and send route
legacyVars == <<vapid_keys, vapidConfigured, keyReturns, lsend>>

vars == <<subscriptions, rate_limit_logs, now, uuid, sub, send, rlReturns,
          calls, legacy, vapidDetails, direct, b64, legacyVars>>

----------------------------------------------------------------------------
(* Bounds of the model *)

MaxCalls == 3           \* requests started in one behaviour
MaxTime == 2            \* the clock runs 0..MaxTime
MaxLen == 4             \* characters of a key-material text

(* Program constants *)

WindowMs == 2           \* windowMs = 60000 ms = 2 ticks
DefaultLimit == 2       \* LIMIT ${options.limit || 1000}, scaled
CONCURRENCY_LIMIT == 2  \* const CONCURRENCY_LIMIT = 50, scaled
DayMs == 2880           \* one day = 86400000 ms = 2880 ticks

----------------------------------------------------------------------------
(* Values *)

Undefined == "undefined"    \* a request field that is absent
Null == "null"              \* SQL NULL in a text column
NoTime == -1                \* expirationTime absent or null; expires_at NULL

Apps == {"a1", "a2"}

\* apps.rate_limit of each tenant (the default is 60 / 10000 / 10000)
RateLimitOf(app) ==
    IF app = "a1"
    THEN [maxNotificationsPerMinute |-> 2, maxNotificationsPerDay |-> 4,
          maxSubscriptions |-> 4]
    ELSE [maxNotificationsPerMinute |-> 1, maxNotificationsPerDay |-> 2,
          maxSubscriptions |-> 1]

\* Key material: the bytes it encodes, their number, and the alphabet of the
\* text ("base64" = '+' '/' with padding, "base64url" = '-' '_' unpadded,
\* "invalid" = a character outside both).
Key(bytes, len, alphabet) == [bytes |-> bytes, len |-> len, alphabet |-> alphabet]
NullKey == Key("", 0, "null")

ValidUrls == {"https://push/1", "https://push/2", "https://push/3",
              "https://push/4"}

----------------------------------------------------------------------------
(* lib/types.ts: validation of the subscribe body *)

normalizeBase64Url(input) ==
    IF input.alphabet \notin {"base64", "base64url"} \/ input.len = 0
    THEN NullKey
    ELSE Key(input.bytes, input.len, "base64url")

\* A key schema without the check of the decoded length
AnyLengthKey(value) == normalizeBase64Url(value)

P256dhKey(value) ==
    LET n == normalizeBase64Url(value)
    IN  IF n = NullKey \/ n.len # 65 THEN NullKey ELSE n

AuthKey(value) ==
    LET n == normalizeBase64Url(value)
    IN  IF n = NullKey \/ n.len < 16 THEN NullKey ELSE n

\* SubscribeSchema.safeParse(body).success
SubscribeSchemaOk(body) ==
    /\ body.endpoint \in ValidUrls
    /\ P256dhKey(body.p256dh) # NullKey
    /\ AuthKey(body.auth) # NullKey

\* parseResult.data: the keys are replaced by their canonical encodings
SubscribeSchemaData(body) ==
    [body EXCEPT !.p256dh = P256dhKey(body.p256dh), !.auth = AuthKey(body.auth)]

----------------------------------------------------------------------------
(* lib/db.ts: the subscriptions table *)

\* expiresAt = options?.expirationTime ? new Date(options.expirationTime) : null
ExpiresAtOf(expirationTime) ==
    IF expirationTime = NoTime \/ expirationTime = 0 THEN NoTime ELSE expirationTime

\* ${options?.userId ?? null}
OrNull(v) == IF v = Undefined THEN Null ELSE v

\* JSON.stringify(options?.metadata || {})
MetadataJson(m) == IF m = Undefined THEN "{}" ELSE m

\* The row of the VALUES clause of createSubscription
NewRow(id, appId, data, t) ==
    [id |-> id, appId |-> appId, endpoint |-> data.endpoint,
     p256dh |-> data.p256dh, auth |-> data.auth,
     userId |-> OrNull(data.userId), channelId |-> OrNull(data.channelId),
     metadata |-> MetadataJson(data.metadata),
     createdAt |-> t, expiresAt |-> ExpiresAtOf(data.expirationTime)]

Conflicting(rows, new) ==
    {r \in rows : r.appId = new.appId /\ r.endpoint = new.endpoint}

\* ON CONFLICT (app_id, endpoint) DO UPDATE SET ...: id and created_at stay
Excluded(old, new) ==
    [new EXCEPT !.id = old.id, !.createdAt = old.createdAt]

\* A plain INSERT without the ON CONFLICT clause or the UNIQUE constraint
InsertAlways(rows, new) == rows \cup {new}

\* INSERT ... ON CONFLICT (app_id, endpoint) DO UPDATE ..., one atomic statement
UpsertSubscription(rows, new) ==
    IF Conflicting(rows, new) = {}
    THEN rows \cup {new}
    ELSE (rows \ Conflicting(rows, new))
            \cup {Excluded(old, new) : old \in Conflicting(rows, new)}

\* RETURNING *
UpsertReturning(rows, new) ==
    CHOOSE r \in UpsertSubscription(rows, new) :
        r.appId = new.appId /\ r.endpoint = new.endpoint

\* deleteSubscription: DELETE FROM subscriptions WHERE id = ${id}
DeleteById(rows, id) == {r \in rows : r.id # id}

\* deleteSubscriptionByEndpoint
DeleteByKey(rows, appId, endpoint) ==
    {r \in rows : ~(r.appId = appId /\ r.endpoint = endpoint)}

\* A count that misses the tenant's rows
CountsNothing(rows, appId) == 0

\* A count of the rows that have not expired
CountsLive(rows, appId) ==
    Cardinality({r \in rows : r.appId = appId
                    /\ (r.expiresAt = NoTime \/ r.expiresAt > now)})

\* countSubscriptionsByApp: SELECT COUNT(*) ... WHERE app_id = ${appId}
countSubscriptionsByApp(rows, appId) ==
    Cardinality({r \in rows : r.appId = appId})

\* expires_at IS NULL OR expires_at > NOW()
Live(r, t) == r.expiresAt = NoTime \/ r.expiresAt > t


\* ORDER BY created_at DESC (rows of one instant: the later uuid first)
Newer(a, b) ==
    a.createdAt > b.createdAt \/ (a.createdAt = b.createdAt /\ a.id > b.id)

RECURSIVE NewestFirst(_)
NewestFirst(rows) ==
    IF rows = {} THEN <<>>
    ELSE LET first == CHOOSE r \in rows : \A o \in rows \ {r} : Newer(r, o)
         IN  <<first>> \o NewestFirst(rows \ {first})

RECURSIVE ById(_)
ById(rows) ==
    IF rows = {} THEN <<>>
    ELSE LET first == CHOOSE r \in rows : \A o \in rows \ {r} : r.id < o.id
         IN  <<first>> \o ById(rows \ {first})

\* LIMIT n OFFSET 0
Limit(s, n) == SubSeq(s, 1, IF Len(s) < n THEN Len(s) ELSE n)

Range(s) == {s[i] : i \in 1..Len(s)}

\* The WHERE clause of the four branches of getSubscriptionsByApp; an empty or
\* absent userId / channelId is falsy and selects the branch without it.
Truthy(v) == v # Undefined /\ v # ""

MatchesFilter(r, appId, userId, channelId, t) ==
    /\ r.appId = appId
    /\ Truthy(userId) => r.userId = userId
    /\ Truthy(channelId) => r.channelId = channelId
    /\ Live(r, t)

getSubscriptionsByApp(rows, appId, userId, channelId, t) ==
    Limit(NewestFirst({r \in rows : MatchesFilter(r, appId, userId, channelId, t)}),
          DefaultLimit)

\* SELECT * FROM subscriptions WHERE id IN (...): no app, no expiry condition
\* (the statement fixes no order; rows are taken in id order)
getSubscriptionsByIds(rows, ids) ==
    IF ids = {} THEN <<>> ELSE ById({r \in rows : r.id \in ids})

\* The rows fetched by id, handed on without the ownership filter
NotFiltered(s, appId) == s

\* subscriptions.filter((s) => s.appId === app.id)
OwnedBy(s, appId) == SelectSeq(s, LAMBDA r : r.appId = appId)

----------------------------------------------------------------------------
(* lib/db.ts: the rate limiter *)

\* A window that starts at the time of the call
Unaligned(t) == t

\* Math.floor(Date.now() / windowMs) * windowMs
WindowStart(t) == (t \div WindowMs) * WindowMs

SameWindow(r, appId, action, windowStart) ==
    r.appId = appId /\ r.action = action /\ r.windowStart = windowStart

\* An upsert whose DO UPDATE leaves the stored count as it was
RateLimitLostUpdate(logs, appId, action, windowStart) ==
    IF \E r \in logs : SameWindow(r, appId, action, windowStart)
    THEN logs
    ELSE logs \cup {[appId |-> appId, action |-> action,
                     windowStart |-> windowStart, count |-> 1]}

\* INSERT ... VALUES (.., 1, ..) ON CONFLICT (app_id, action, window_start)
\* DO UPDATE SET count = rate_limit_logs.count + 1, one atomic statement
RateLimitUpsert(logs, appId, action, windowStart) ==
    IF \E r \in logs : SameWindow(r, appId, action, windowStart)
    THEN {IF SameWindow(r, appId, action, windowStart)
          THEN [r EXCEPT !.count = r.count + 1] ELSE r : r \in logs}
    ELSE logs \cup {[appId |-> appId, action |-> action,
                     windowStart |-> windowStart, count |-> 1]}

\* RETURNING count
RateLimitCount(logs, appId, action, windowStart) ==
    LET hit == {r \in logs : SameWindow(r, appId, action, windowStart)}
    IN  IF hit = {} THEN 0 ELSE (CHOOSE r \in hit : TRUE).count

\* const allowed = current <= limit
Allowed(current, limit) == current <= limit

\* A gate that files every send under 'broadcast'
AlwaysBroadcast(n) == "broadcast"

\* subscriptions.length > 1 ? 'broadcast' : 'notification'
ActionOf(n) == IF n > 1 THEN "broadcast" ELSE "notification"

----------------------------------------------------------------------------
(* Requests *)

SubProcs == {"r1", "r2"}
SendProcs == {"s1", "s2"}

\* A new request takes the first free slot
FreeSub(p) == sub[p].pc = "idle" /\ (p = "r2" => sub["r1"].pc # "idle")
FreeSend(p) == send[p].pc = "idle" /\ (p = "s2" => send["s1"].pc # "idle")

NoBody == [endpoint |-> "", p256dh |-> NullKey, auth |-> NullKey,
           userId |-> Undefined, channelId |-> Undefined,
           metadata |-> Undefined, expirationTime |-> NoTime]

NoRow == NewRow(0, "", NoBody, 0)

NoRequest == [userId |-> Undefined, channelId |-> Undefined,
              subscriptionIds |-> {}]

NoCheck == [allowed |-> TRUE, current |-> 0, limit |-> 0]

IdleSub == [pc |-> "idle", app |-> "a1", data |-> NoBody, id |-> 0,
            status |-> 0, row |-> NoRow]

IdleSend == [pc |-> "idle", app |-> "a1", req |-> NoRequest, targets |-> <<>>,
             resolvedAt |-> 0, action |-> "", windowStart |-> 0,
             check |-> NoCheck, i |-> 0, st |-> <<>>, status |-> 0,
             result |-> [sent |-> 0, failed |-> 0, total |-> 0],
             order |-> <<>>, results |-> <<>>]

\* One delivery of a send request: not yet issued, in flight at the push
\* service, awaiting deleteSubscription after 404/410, or finished.
\* The delivery also keeps the VAPID details its request was signed with.
\* attempts counts the calls of webPush.sendNotification made for it.
Slot(s, code) == [s |-> s, statusCode |-> code, vapid |-> "none", attempts |-> 0]

\* The push service's answers: 201, 404 and 410 (gone), 500
Outcomes == {201, 404, 410, 500}

\* webPush before any setVapidDetails call
NoVapid == "none"

\* err.statusCode of a rejection that carries none (network error)
NoStatusCode == -1

\* What webPush.sendNotification can reject or resolve with
FaultOutcomes == Outcomes \cup {NoStatusCode}

\* A dispatcher that also prunes after a server error
GoneOrServerError(statusCode) == statusCode \in {404, 410, 500}

\* err.statusCode === 404 || err.statusCode === 410
Gone(statusCode) == statusCode \in {404, 410}

\* A web-push module configured once and not per delivery
KeepVapidDetails(current, app) == current

\* webPush.setVapidDetails(VAPID_SUBJECT, app.vapidPublicKey,
\* app.vapidPrivateKey): the details in effect become those of the app
setVapidDetails(current, app) == app

\* The SendResult of a delivery that has not settled
NoResult == [success |-> FALSE, statusCode |-> 0, raised |-> FALSE]

DirectProcs == {"d1"}

IdleDirect == [pc |-> "idle", app |-> "a1", endpoint |-> "", vapid |-> NoVapid,
               result |-> NoResult]

\* No text under normalization
IdleB64 == [pc |-> "idle", input |-> <<>>, strict |-> <<>>, maybe |-> <<>>]

\* let vapidConfigured = false, before any setVapidDetails
NotConfigured == [configured |-> FALSE, publicKey |-> 0]

\* No subscription looked up
NoSubscription == [id |-> 0, appId |-> "", endpoint |-> "", p256dh |-> NullKey,
                   auth |-> NullKey, createdAt |-> 0]

\* The body of no send request: subscriptionId 0 is an absent one
NoLegacyRequest == [subscriptionId |-> 0, payload |-> FALSE, direct |-> FALSE]

IdleLegacySend == [pc |-> "idle", app |-> "a1", req |-> NoLegacyRequest,
                   subscription |-> NoSubscription, status |-> 0, error |-> "",
                   transport |-> 0]

\* An empty vapid_keys table, a fresh process, no send request
InitLegacy ==
    /\ vapid_keys = <<>>
    /\ vapidConfigured = NotConfigured
    /\ keyReturns = <<>>
    /\ lsend = IdleLegacySend

Init ==
    /\ subscriptions = {}
    /\ rate_limit_logs = {}
    /\ now = 0
    /\ uuid = 0
    /\ sub = [p \in SubProcs |-> IdleSub]
    /\ send = [p \in SendProcs |-> IdleSend]
    /\ rlReturns = {}
    /\ calls = 0
    /\ legacy = {}
    /\ vapidDetails = NoVapid
    /\ direct = [p \in DirectProcs |-> IdleDirect]
    /\ b64 = IdleB64
    /\ InitLegacy

Tick ==
    /\ now < MaxTime
    /\ now' = now + 1
    /\ UNCHANGED <<subscriptions, rate_limit_logs, uuid, sub, send, rlReturns,
                   calls, legacy,
                   vapidDetails, direct, b64, legacyVars>>

----------------------------------------------------------------------------
(* app/api/subscribe/route.ts: POST *)

\* Up to the first statement of createSubscription: the count, the ceiling
\* check, the body validation and the uuid of the row to insert.  A rejected
\* request keeps the body it was sent with.
SubscribeCount(p, app, body) ==
    /\ FreeSub(p)
    /\ calls < MaxCalls
    /\ calls' = calls + 1
    /\ IF countSubscriptionsByApp(subscriptions, app)
            >= RateLimitOf(app).maxSubscriptions
       THEN /\ sub' = [sub EXCEPT ![p] =
                    [IdleSub EXCEPT !.pc = "done", !.app = app, !.data = body,
                                    !.status = 429]]
            /\ uuid' = uuid
       ELSE IF ~SubscribeSchemaOk(body)
       THEN /\ sub' = [sub EXCEPT ![p] =
                    [IdleSub EXCEPT !.pc = "done", !.app = app, !.data = body,
                                    !.status = 422]]
            /\ uuid' = uuid
       ELSE /\ uuid' = uuid + 1
            /\ sub' = [sub EXCEPT ![p] =
                    [IdleSub EXCEPT !.pc = "insert", !.app = app,
                                    !.data = SubscribeSchemaData(body),
                                    !.id = uuid + 1]]
    /\ UNCHANGED <<subscriptions, rate_limit_logs, now, send, rlReturns, legacy,
                   vapidDetails, direct, b64, legacyVars>>

\* The INSERT ... ON CONFLICT statement of createSubscription and the 201
SubscribeInsert(p) ==
    /\ sub[p].pc = "insert"
    /\ LET new == NewRow(sub[p].id, sub[p].app, sub[p].data, now)
       IN  /\ subscriptions' = UpsertSubscription(subscriptions, new)
           /\ sub' = [sub EXCEPT ![p].pc = "done", ![p].status = 201,
                                 ![p].row = UpsertReturning(subscriptions, new)]
    /\ UNCHANGED <<rate_limit_logs, now, uuid, send, rlReturns, calls, legacy,
                   vapidDetails, direct, b64, legacyVars>>

SubscribeReturn(p) ==
    /\ sub[p].pc = "done"
    /\ sub' = [sub EXCEPT ![p] = IdleSub]
    /\ UNCHANGED <<subscriptions, rate_limit_logs, now, uuid, send, rlReturns,
                   calls, legacy,
                   vapidDetails, direct, b64, legacyVars>>

\* deleteSubscription(id) called by a client of the registry
Delete(id) ==
    /\ calls < MaxCalls
    /\ calls' = calls + 1
    /\ subscriptions' = DeleteById(subscriptions, id)
    /\ UNCHANGED <<rate_limit_logs, now, uuid, sub, send, rlReturns, legacy,
                   vapidDetails, direct, b64, legacyVars>>

\* deleteSubscriptionByEndpoint(appId, endpoint)
DeleteByEndpoint(app, endpoint) ==
    /\ calls < MaxCalls
    /\ calls' = calls + 1
    /\ subscriptions' = DeleteByKey(subscriptions, app, endpoint)
    /\ UNCHANGED <<rate_limit_logs, now, uuid, sub, send, rlReturns, legacy,
                   vapidDetails, direct, b64, legacyVars>>

----------------------------------------------------------------------------
(* lib/notifications.ts: sendNotifications, behind POST /api/send *)

\* Target resolution of sendNotifications
ResolveTargets(rows, app, req, t) ==
    IF req.subscriptionIds # {}
    THEN OwnedBy(getSubscriptionsByIds(rows, req.subscriptionIds), app)
    ELSE getSubscriptionsByApp(rows, app, req.userId, req.channelId, t)

\* A dispatcher without the early return on an empty target list
GateAnyway(targets) == FALSE

\* if (subscriptions.length === 0) return {sent: 0, failed: 0, total: 0, ...}
NothingToSend(targets) == Len(targets) = 0

\* A dispatcher that ignores the verdict of the gate
NeverRejected(check) == FALSE

\* if (!rateLimitCheck.allowed) throw new Error('Rate limit exceeded')
Rejected(check) == ~check.allowed

\* A dispatcher that hands every target to the push service at once
IssueAll(st, i, details) ==
    [j \in 1..Len(st) |->
        IF st[j].s = "pending"
        THEN [Slot("inflight", 0) EXCEPT !.vapid = details,
                                         !.attempts = st[j].attempts + 1]
        ELSE st[j]]

\* batch.map((sub) => sendToSubscription(app, sub, payloadString)) for
\* batch = subscriptions.slice(i, i + CONCURRENCY_LIMIT): every delivery of
\* the batch is handed to the push service
\* the batch runs synchronously up to its calls of webPush.sendNotification,
\* which sign the request with the details set just before.
IssueBatch(st, i, details) ==
    [j \in 1..Len(st) |->
        IF j > i /\ j <= i + CONCURRENCY_LIMIT
        THEN [Slot("inflight", 0) EXCEPT !.vapid = details,
                                         !.attempts = st[j].attempts + 1]
        ELSE st[j]]

\* subscriptions.slice(i, i + CONCURRENCY_LIMIT), as indexes into the targets
Slice(n, i) ==
    [k \in 1..(IF i + CONCURRENCY_LIMIT < n THEN CONCURRENCY_LIMIT ELSE n - i)
        |-> i + k]

\* An aggregation that collects the promises as they resolve
InCompletionOrder(batch, order) ==
    SelectSeq(order, LAMBDA j : \E k \in DOMAIN batch : batch[k] = j)

\* await Promise.all(batch.map(...)): every promise of the batch has
\* resolved, and the value of each stands at the index of its promise.
\* order lists the deliveries in the order their promises resolved.
PromiseAll(batch, order) ==
    [k \in DOMAIN batch |->
        CHOOSE j \in {order[n] : n \in DOMAIN order} : j = batch[k]]

\* The SendResult sendToSubscription resolves with
SendResultOf(target, slot) ==
    [subscriptionId |-> target.id, success |-> slot.statusCode = 201,
     statusCode |-> slot.statusCode]

\* results.push(...batchResults)
PushResults(me) ==
    LET batchResults == PromiseAll(Slice(Len(me.st), me.i), me.order)
    IN  me.results \o [k \in DOMAIN batchResults |->
            SendResultOf(me.targets[batchResults[k]], me.st[batchResults[k]])]

Count(st, ok) ==
    Cardinality({j \in 1..Len(st) :
                    st[j].s = "done" /\ ((st[j].statusCode = 201) <=> ok)})

\* Target resolution, the empty-set return, and Date.now() of the gate
SendResolve(p, app, req) ==
    /\ FreeSend(p)
    /\ calls < MaxCalls
    /\ calls' = calls + 1
    /\ LET targets == ResolveTargets(subscriptions, app, req, now)
       IN  IF NothingToSend(targets)
           THEN send' = [send EXCEPT ![p] =
                    [IdleSend EXCEPT !.pc = "done", !.app = app, !.req = req,
                                     !.resolvedAt = now, !.status = 200]]
           ELSE send' = [send EXCEPT ![p] =
                    [IdleSend EXCEPT !.pc = "gate", !.app = app, !.req = req,
                        !.targets = targets, !.resolvedAt = now,
                        !.action = ActionOf(Len(targets)),
                        !.st = [j \in 1..Len(targets) |-> Slot("pending", 0)]]]
    /\ UNCHANGED <<subscriptions, rate_limit_logs, now, uuid, sub, rlReturns,
                   legacy,
                   vapidDetails, direct, b64, legacyVars>>

\* The statement of checkAndIncrementRateLimit, the rejection, and the first
\* batch of deliveries
SendGate(p) ==
    /\ send[p].pc = "gate"
    /\ LET me == [send[p] EXCEPT !.windowStart = WindowStart(now)]
           limit == RateLimitOf(me.app).maxNotificationsPerMinute
           logs == RateLimitUpsert(rate_limit_logs, me.app, me.action,
                                   me.windowStart)
           current == RateLimitCount(logs, me.app, me.action, me.windowStart)
           check == [allowed |-> Allowed(current, limit), current |-> current,
                     limit |-> limit]
       IN  /\ rate_limit_logs' = logs
           /\ rlReturns' = rlReturns \cup
                {[appId |-> me.app, action |-> me.action,
                  windowStart |-> me.windowStart,
                  n |-> 1 + Cardinality({r \in rlReturns :
                        SameWindow(r, me.app, me.action, me.windowStart)}),
                  limit |-> limit, current |-> current,
                  allowed |-> check.allowed]}
           /\ IF Rejected(check)
              THEN send' = [send EXCEPT ![p].pc = "done", ![p].check = check,
                                        ![p].windowStart = me.windowStart,
                                        ![p].status = 429]
              ELSE send' = [send EXCEPT ![p].pc = "sending", ![p].check = check,
                        ![p].windowStart = me.windowStart,
                        ![p].st = IssueBatch(me.st, 0,
                                    setVapidDetails(vapidDetails, me.app))]
           /\ vapidDetails' = IF Rejected(check) THEN vapidDetails
                               ELSE setVapidDetails(vapidDetails, me.app)
    /\ UNCHANGED <<subscriptions, now, uuid, sub, calls, legacy, direct, b64, legacyVars>>

\* webPush.sendNotification settles for one delivery of the batch
SendComplete(p, j, statusCode) ==
    /\ send[p].pc \in {"sending", "done"}
    /\ j \in 1..Len(send[p].st)
    /\ send[p].st[j].s = "inflight"
    /\ send' = [send EXCEPT ![p].st[j].statusCode = statusCode,
                            ![p].st[j].s = IF Gone(statusCode)
                                           THEN "deleting" ELSE "done",
                            ![p].order = IF Gone(statusCode) THEN @
                                         ELSE Append(@, j)]
    /\ UNCHANGED <<subscriptions, rate_limit_logs, now, uuid, sub, rlReturns,
                   calls, legacy,
                   vapidDetails, direct, b64, legacyVars>>

\* await deleteSubscription(subscription.id) after a 404 / 410
SendPrune(p, j) ==
    /\ send[p].pc \in {"sending", "done"}
    /\ j \in 1..Len(send[p].st)
    /\ send[p].st[j].s = "deleting"
    /\ subscriptions' = DeleteById(subscriptions, send[p].targets[j].id)
    /\ send' = [send EXCEPT ![p].st[j].s = "done",
                            ![p].order = Append(@, j)]
    /\ UNCHANGED <<rate_limit_logs, now, uuid, sub, rlReturns, calls, legacy,
                   vapidDetails, direct, b64, legacyVars>>

\* deleteSubscription throws (the store is unreachable): the rejection leaves
\* sendToSubscription, Promise.all and sendNotifications, and the route answers
\* 500; the deliveries of the batch already in flight settle on their own.
SendPruneFails(p, j) ==
    /\ send[p].pc \in {"sending", "done"}
    /\ j \in 1..Len(send[p].st)
    /\ send[p].st[j].s = "deleting"
    /\ send' = [send EXCEPT ![p].st[j].s = "rejected",
                            ![p].pc = "done",
                            ![p].status = IF send[p].pc = "sending" THEN 500
                                          ELSE send[p].status]
    /\ UNCHANGED <<subscriptions, rate_limit_logs, now, uuid, sub, rlReturns,
                   calls, legacy, vapidDetails, direct, b64, legacyVars>>

\* Promise.all of the batch resolves: its results are pushed, then the next
\* batch (whose Promise.all starts with no promise resolved), or the result
SendNextBatch(p) ==
    /\ send[p].pc = "sending"
    /\ LET me == send[p]
           n == Len(me.st)
           i == me.i + CONCURRENCY_LIMIT
       IN  /\ \A j \in 1..n : me.st[j].s \in {"pending", "done"}
           /\ vapidDetails' = IF i < n THEN setVapidDetails(vapidDetails, me.app)
                               ELSE vapidDetails
           /\ IF i < n
              THEN send' = [send EXCEPT ![p].i = i,
                        ![p].results = PushResults(me),
                        ![p].order = <<>>,
                        ![p].st = IssueBatch(me.st, i,
                                    setVapidDetails(vapidDetails, me.app))]
              ELSE send' = [send EXCEPT ![p].pc = "done", ![p].i = i,
                                ![p].status = 200,
                                ![p].results = PushResults(me),
                                ![p].result = [sent |-> Count(me.st, TRUE),
                                               failed |-> Count(me.st, FALSE),
                                               total |-> Len(me.targets)]]
    /\ UNCHANGED <<subscriptions, rate_limit_logs, now, uuid, sub, rlReturns,
                   calls, legacy, direct, b64, legacyVars>>

SendReturn(p) ==
    /\ send[p].pc = "done"
    /\ \A j \in DOMAIN send[p].st : send[p].st[j].s \notin {"inflight", "deleting"}
    /\ send' = [send EXCEPT ![p] = IdleSend]
    /\ UNCHANGED <<subscriptions, rate_limit_logs, now, uuid, sub, rlReturns,
                   calls, legacy,
                   vapidDetails, direct, b64, legacyVars>>

----------------------------------------------------------------------------
(* Inputs *)

K1 == Key("k1", 65, "base64url")
K2 == Key("k2", 65, "base64")
S1 == Key("s1", 16, "base64url")
S2 == Key("s2", 16, "base64")

Body(e, k, s, u, c, m, x) ==
    [endpoint |-> e, p256dh |-> k, auth |-> s, userId |-> u, channelId |-> c,
     metadata |-> m, expirationTime |-> x]

\* Bodies of subscribe requests: two endpoints, a first registration with
\* every optional field and a re-registration with new secrets and none
SubscribeBodies ==
    {Body(e, K1, S1, "u1", "c1", "{m:1}", 2) : e \in {"https://push/1", "https://push/2"}}
    \cup {Body("https://push/1", K2, S2, Undefined, Undefined, Undefined, 0),
          Body("push/1", K1, S1, Undefined, Undefined, Undefined, NoTime)}

Filter(u, c) == [userId |-> u, channelId |-> c, subscriptionIds |-> {}]
Ids(ids) == [userId |-> Undefined, channelId |-> Undefined, subscriptionIds |-> ids]

\* Bodies of send requests against a registry built by subscribe requests
SendRequests == {Filter(Undefined, Undefined)}

\* The registry under subscribe, delete and pruning dispatch; these requests
\* read the clock for created_at alone, and it stays at its initial value.
Next ==
    \/ \E p \in SubProcs, app \in Apps, body \in SubscribeBodies :
            SubscribeCount(p, app, body)
    \/ \E p \in SubProcs : SubscribeInsert(p)
    \/ \E p \in SubProcs : SubscribeReturn(p)
    \/ \E id \in 1..uuid : Delete(id)
    \/ \E app \in Apps, e \in {"https://push/1", "https://push/2"} :
            DeleteByEndpoint(app, e)
    \/ \E app \in Apps, req \in SendRequests : SendResolve("s1", app, req)
    \/ SendGate("s1")
    \/ \E j \in DOMAIN send["s1"].st, c \in {201, 410} : SendComplete("s1", j, c)
    \/ \E j \in DOMAIN send["s1"].st : SendPrune("s1", j)
    \/ SendNextBatch("s1")
    \/ SendReturn("s1")

Spec == Init /\ [][Next]_vars

----------------------------------------------------------------------------
(* The registry when the subscribe requests of one tenant do not overlap *)

\* A subscribe request that starts while no other of its tenant is between
\* its count and its insert
SubscribeAlone(p, app, body) ==
    /\ \A q \in SubProcs : sub[q].pc = "insert" => sub[q].app # app
    /\ SubscribeCount(p, app, body)

NextSequential ==
    \/ \E p \in SubProcs, app \in Apps, body \in SubscribeBodies :
            SubscribeAlone(p, app, body)
    \/ \E p \in SubProcs : SubscribeInsert(p)
    \/ \E p \in SubProcs : SubscribeReturn(p)
    \/ \E id \in 1..uuid : Delete(id)
    \/ \E app \in Apps, e \in {"https://push/1", "https://push/2"} :
            DeleteByEndpoint(app, e)
    \/ \E app \in Apps, req \in SendRequests : SendResolve("s1", app, req)
    \/ SendGate("s1")
    \/ \E j \in DOMAIN send["s1"].st, c \in {201, 410} : SendComplete("s1", j, c)
    \/ \E j \in DOMAIN send["s1"].st : SendPrune("s1", j)
    \/ SendNextBatch("s1")
    \/ SendReturn("s1")

SpecSequential == Init /\ [][NextSequential]_vars

----------------------------------------------------------------------------
(* Subscribe requests of tenant a2 (maxSubscriptions 1) around its ceiling *)

\* Three endpoints with an expiration time, a re-registration of the first
\* with new secrets, and a body that fails SubscribeSchema
CeilingBodies ==
    {Body(e, K1, S1, Undefined, Undefined, Undefined, 1) :
        e \in {"https://push/1", "https://push/2", "https://push/3"}}
    \cup {Body("https://push/1", K2, S2, Undefined, Undefined, Undefined, NoTime),
          Body("push/1", K1, S1, Undefined, Undefined, Undefined, NoTime)}

NextCeiling ==
    \/ Tick
    \/ \E p \in SubProcs, body \in CeilingBodies : SubscribeCount(p, "a2", body)
    \/ \E p \in SubProcs : SubscribeInsert(p)
    \/ \E p \in SubProcs : SubscribeReturn(p)
    \/ \E id \in 1..uuid : Delete(id)

SpecCeiling == Init /\ [][NextCeiling]_vars

----------------------------------------------------------------------------
(* Dispatch against a registry that earlier subscribe requests have built *)

Row(id, app, e, u, c, x) ==
    [NewRow(id, app, Body(e, K1, S1, u, c, Undefined, x), id - 10)
        EXCEPT !.expiresAt = x]

Catalog ==
    {Row(1, "a1", "https://push/1", "u1", "c1", NoTime),
     Row(2, "a1", "https://push/2", "u1", "c2", NoTime),
     Row(3, "a1", "https://push/3", "u2", "c1", 1),
     Row(4, "a2", "https://push/1", "u1", "c1", NoTime),
     Row(5, "a1", "https://push/4", "u2", "c1", NoTime)}

DispatchRequests ==
    {Filter(u, c) : u \in {Undefined, "", "u1"}, c \in {Undefined, "c1"}}
    \cup {Ids(ids) : ids \in {{1}, {3}, {1, 4}, {4, 6}}}

InitDispatch ==
    /\ subscriptions = Catalog
    /\ rate_limit_logs = {}
    /\ now = 0
    /\ uuid = Cardinality(Catalog)
    /\ sub = [p \in SubProcs |-> IdleSub]
    /\ send = [p \in SendProcs |-> IdleSend]
    /\ rlReturns = {}
    /\ calls = 0
    /\ legacy = {}
    /\ vapidDetails = NoVapid
    /\ direct = [p \in DirectProcs |-> IdleDirect]
    /\ b64 = IdleB64
    /\ InitLegacy

NextDispatch ==
    \/ Tick
    \/ \E app \in Apps, req \in DispatchRequests : SendResolve("s1", app, req)
    \/ SendGate("s1")
    \/ \E c \in {201, 410} : \E j \in DOMAIN send["s1"].st : SendComplete("s1", j, c)
    \/ \E j \in DOMAIN send["s1"].st : SendPrune("s1", j)
    \/ SendNextBatch("s1")
    \/ SendReturn("s1")

SpecDispatch == InitDispatch /\ [][NextDispatch]_vars

----------------------------------------------------------------------------
(* Concurrent send requests at the rate-limit gate *)

LimiterRequests == {Ids({1}), Filter("u1", Undefined)}

NextLimiter ==
    \/ Tick
    \/ \E p \in SendProcs, app \in Apps, req \in LimiterRequests :
            SendResolve(p, app, req)
    \/ \E p \in SendProcs : SendGate(p)
    \/ \E p \in SendProcs : \E j \in DOMAIN send[p].st : SendComplete(p, j, 201)
    \/ \E p \in SendProcs : SendNextBatch(p)
    \/ \E p \in SendProcs : SendReturn(p)

SpecLimiter == InitDispatch /\ [][NextLimiter]_vars

\* Sends of tenant a1 by ids, some of them of the other tenant, and by filter
GateRequests == {Ids({1}), Ids({1, 4}), Ids({4}), Filter("u1", Undefined)}

NextGate ==
    \/ Tick
    \/ \E p \in SendProcs, req \in GateRequests : SendResolve(p, "a1", req)
    \/ \E p \in SendProcs : SendGate(p)
    \/ \E p \in SendProcs : \E j \in DOMAIN send[p].st : SendComplete(p, j, 201)
    \/ \E p \in SendProcs : SendNextBatch(p)
    \/ \E p \in SendProcs : SendReturn(p)

SpecGate == InitDispatch /\ [][NextGate]_vars

----------------------------------------------------------------------------
(* Sends of one day, spread over several rate-limit windows *)

\* A minute passes: the next call of checkAndIncrementRateLimit falls into
\* the next window
Minute ==
    /\ now < MaxTime * WindowMs
    /\ now' = now + WindowMs
    /\ UNCHANGED <<subscriptions, rate_limit_logs, uuid, sub, send, rlReturns,
                   calls, legacy, vapidDetails, direct, b64, legacyVars>>

\* One target of a1, one target of a2
DayRequests == {Ids({1}), Ids({4})}

NextDay ==
    \/ Minute
    \/ \E app \in Apps, req \in DayRequests : SendResolve("s1", app, req)
    \/ SendGate("s1")
    \/ \E j \in DOMAIN send["s1"].st : SendComplete("s1", j, 201)
    \/ SendNextBatch("s1")
    \/ SendReturn("s1")

SpecDay == InitDispatch /\ [][NextDay]_vars

----------------------------------------------------------------------------
(* lib/types.ts normalizeBase64Url and lib/notifications.ts
   normalizeBase64UrlMaybe on the text of a key.  A text is a sequence of
   characters; a character of the base64 alphabet is written as its 6-bit
   value (0 = 'A' .. 61 = '9', 62 = '+', 63 = '/'), the others as below. *)

Plus == 62              \* '+'
Slash == 63             \* '/'
Minus == 64             \* '-', the value 62 in the base64url alphabet
Underscore == 65        \* '_', the value 63 in the base64url alphabet
Equals == 66            \* '='
Space == 67             \* a whitespace character
Bang == 68              \* '!', a character outside both alphabets

\* null: no string
NullText == <<-1>>

\* input.replace(/\s+/g, '')
Compact(input) == SelectSeq(input, LAMBDA c : c # Space)

\* /^[A-Za-z0-9+/_-]+={0,2}$/.test(compact)
MatchesBase64(compact) ==
    \E n \in 1..Len(compact) :
        /\ \A i \in 1..n : compact[i] \in 0..Underscore
        /\ \A i \in (n + 1)..Len(compact) : compact[i] = Equals
        /\ Len(compact) - n <= 2

\* compact.replace(/-/g, '+').replace(/_/g, '/')
AsBase64(compact) ==
    [i \in 1..Len(compact) |->
        IF compact[i] = Minus THEN Plus
        ELSE IF compact[i] = Underscore THEN Slash ELSE compact[i]]

\* asBase64 + '='.repeat((4 - (asBase64.length % 4)) % 4)
Padded(asBase64) ==
    asBase64 \o [i \in 1..((4 - (Len(asBase64) % 4)) % 4) |-> Equals]

\* Buffer.from(padded, 'base64'): the characters before the first '=' are
\* read as 6-bit values and every complete group of 8 bits is a byte
BufferFrom(padded) ==
    LET d == SelectSeq(padded, LAMBDA c : c # Equals)
        m == (Len(d) * 6) \div 8
    IN  [k \in 1..m |->
            LET i == ((8 * (k - 1)) \div 6) + 1
                o == (8 * (k - 1)) % 6
            IN  IF o = 0 THEN d[i] * 4 + (d[i + 1] \div 16)
                ELSE IF o = 2 THEN (d[i] % 16) * 16 + (d[i + 1] \div 4)
                ELSE (d[i] % 4) * 64 + d[i + 1]]

\* The 6-bit values of the unpadded encoding of bytes
Sextets(bytes) ==
    LET m == Len(bytes)
        B(i) == IF i <= m THEN bytes[i] ELSE 0
    IN  [j \in 1..((8 * m + 5) \div 6) |->
            LET i == ((6 * (j - 1)) \div 8) + 1
                o == (6 * (j - 1)) % 8
            IN  IF o = 0 THEN bytes[i] \div 4
                ELSE IF o = 6 THEN (bytes[i] % 4) * 16 + (B(i + 1) \div 16)
                ELSE IF o = 4 THEN (bytes[i] % 16) * 4 + (B(i + 1) \div 64)
                ELSE bytes[i] % 64]

\* bytes.toString('base64'): '+' and '/', padded with '='
ToStringBase64(bytes) == Padded(Sextets(bytes))

\* bytes.toString('base64url'): '-' and '_', no padding
ToStringBase64Url(bytes) ==
    LET v == Sextets(bytes)
    IN  [j \in 1..Len(v) |->
            IF v[j] = Plus THEN Minus
            ELSE IF v[j] = Slash THEN Underscore ELSE v[j]]

\* types.ts normalizeBase64Url, on the text
normalizeBase64UrlText(input) ==
    LET compact == Compact(input)
    IN  IF compact = <<>> THEN NullText
        ELSE IF ~MatchesBase64(compact) THEN NullText
        ELSE LET bytes == BufferFrom(Padded(AsBase64(compact)))
             IN  IF Len(bytes) = 0 THEN NullText
                 ELSE ToStringBase64Url(bytes)

\* notifications.ts normalizeBase64UrlMaybe
normalizeBase64UrlMaybe(input) ==
    LET compact == Compact(input)
    IN  IF compact = <<>> THEN input
        ELSE IF ~MatchesBase64(compact) THEN input
        ELSE LET bytes == BufferFrom(Padded(AsBase64(compact)))
             IN  IF Len(bytes) = 0 THEN input
                 ELSE ToStringBase64Url(bytes)

\* The same bytes written in the other alphabet: '+' '/' with padding
ToPaddedBase64(text) == Padded(AsBase64(SelectSeq(text, LAMBDA c : c # Equals)))

\* Characters of the texts tried: 'A', 'B', '+', '/', '-', '_', '=', ' ', '!'
SampleChars == {0, 1, Plus, Slash, Minus, Underscore, Equals, Space, Bang}

Texts == UNION {[1..n -> SampleChars] : n \in 0..MaxLen}

\* A text arrives as p256dh or auth
InitB64 ==
    /\ subscriptions = {}
    /\ rate_limit_logs = {}
    /\ now = 0
    /\ uuid = 0
    /\ sub = [p \in SubProcs |-> IdleSub]
    /\ send = [p \in SendProcs |-> IdleSend]
    /\ rlReturns = {}
    /\ calls = 0
    /\ legacy = {}
    /\ vapidDetails = NoVapid
    /\ direct = [p \in DirectProcs |-> IdleDirect]
    /\ b64 \in {[IdleB64 EXCEPT !.pc = "in", !.input = text] : text \in Texts}
    /\ InitLegacy

\* Validation at subscribe time and the defensive pass before a delivery
Normalize ==
    /\ b64.pc = "in"
    /\ b64' = [b64 EXCEPT !.pc = "once",
                !.strict = normalizeBase64UrlText(b64.input),
                !.maybe = normalizeBase64UrlMaybe(b64.input)]
    /\ UNCHANGED <<subscriptions, rate_limit_logs, now, uuid, sub, send,
                   rlReturns, calls, legacy, vapidDetails, direct, legacyVars>>

\* The stored value is normalized again before each delivery
Renormalize ==
    /\ b64.pc = "once"
    /\ b64' = [b64 EXCEPT !.pc = "twice",
                !.strict = IF b64.strict = NullText THEN NullText
                           ELSE normalizeBase64UrlText(b64.strict),
                !.maybe = normalizeBase64UrlMaybe(b64.maybe)]
    /\ UNCHANGED <<subscriptions, rate_limit_logs, now, uuid, sub, send,
                   rlReturns, calls, legacy, vapidDetails, direct, legacyVars>>

\* The client sends the same key in the '+' '/' padded encoding
NormalizeOther ==
    /\ b64.pc = "once"
    /\ b64.strict # NullText
    /\ b64' = [b64 EXCEPT !.pc = "other",
                !.strict = normalizeBase64UrlText(ToPaddedBase64(b64.strict)),
                !.maybe = normalizeBase64UrlMaybe(ToPaddedBase64(b64.maybe))]
    /\ UNCHANGED <<subscriptions, rate_limit_logs, now, uuid, sub, send,
                   rlReturns, calls, legacy, vapidDetails, direct, legacyVars>>

NextB64 ==
    \/ Normalize
    \/ Renormalize
    \/ NormalizeOther

SpecB64 == InitB64 /\ [][NextB64]_vars

----------------------------------------------------------------------------
(* Subscribe requests at the boundaries of SubscribeSchema *)

\* p256dh of 64, 65 and 66 bytes and one with a character outside both
\* alphabets; auth of 15, 16 and 17 bytes; an absolute and a relative endpoint
BoundaryKeys ==
    {Key("k", 64, "base64url"), Key("k", 65, "base64"), Key("k", 66, "base64url"),
     Key("k", 65, "invalid")}

BoundaryAuths ==
    {Key("s", 15, "base64url"), Key("s", 16, "base64"), Key("s", 17, "base64url")}

\* The well-formed body and its neighbours that differ in one field
BoundaryBodies ==
    {Body("https://push/1", k, Key("s", 16, "base64"), Undefined, Undefined,
          Undefined, NoTime) : k \in BoundaryKeys}
    \cup {Body("https://push/1", Key("k", 65, "base64"), a, Undefined, Undefined,
               Undefined, NoTime) : a \in BoundaryAuths}
    \cup {Body("push/1", Key("k", 65, "base64"), Key("s", 16, "base64"), Undefined,
               Undefined, Undefined, NoTime)}

NextValidate ==
    \/ \E p \in SubProcs, app \in Apps, body \in BoundaryBodies :
            SubscribeCount(p, app, body)
    \/ \E p \in SubProcs : SubscribeInsert(p)
    \/ \E p \in SubProcs : SubscribeReturn(p)
    \/ \E id \in 1..uuid : Delete(id)

SpecValidate == Init /\ [][NextValidate]_vars

----------------------------------------------------------------------------
(* lib/notifications.ts: sendDirectNotification *)

\* A direct send that lets the rejection of webPush.sendNotification escape
DirectThrows(statusCode) ==
    [success |-> statusCode = 201, statusCode |-> statusCode,
     raised |-> statusCode # 201]

\* return {subscriptionId: 'direct', success, statusCode, error} from the try
\* and from the catch
DirectResult(statusCode) ==
    [success |-> statusCode = 201, statusCode |-> statusCode, raised |-> FALSE]

\* setVapidDetails and the call of webPush.sendNotification
DirectCall(p, app, endpoint) ==
    /\ direct[p].pc = "idle"
    /\ calls < MaxCalls
    /\ calls' = calls + 1
    /\ vapidDetails' = setVapidDetails(vapidDetails, app)
    /\ direct' = [direct EXCEPT ![p] =
            [IdleDirect EXCEPT !.pc = "inflight", !.app = app,
                !.endpoint = endpoint,
                !.vapid = setVapidDetails(vapidDetails, app)]]
    /\ UNCHANGED <<subscriptions, rate_limit_logs, now, uuid, sub, send,
                   rlReturns, legacy, b64, legacyVars>>

\* webPush.sendNotification settles; the result is returned
DirectComplete(p, statusCode) ==
    /\ direct[p].pc = "inflight"
    /\ direct' = [direct EXCEPT ![p].pc = "done",
                                ![p].result = DirectResult(statusCode)]
    /\ UNCHANGED <<subscriptions, rate_limit_logs, now, uuid, sub, send,
                   rlReturns, calls, legacy, vapidDetails, b64, legacyVars>>

DirectReturn(p) ==
    /\ direct[p].pc = "done"
    /\ direct' = [direct EXCEPT ![p] = IdleDirect]
    /\ UNCHANGED <<subscriptions, rate_limit_logs, now, uuid, sub, send,
                   rlReturns, calls, legacy, vapidDetails, b64, legacyVars>>

----------------------------------------------------------------------------
(* Sends of two tenants and a direct send sharing the web-push module *)

\* Three targets of a1 in two batches; the one target of a2
VapidRequests == {Ids({1, 2, 5}), Ids({4})}

NextVapid ==
    \/ \E p \in SendProcs, app \in Apps, req \in VapidRequests :
            SendResolve(p, app, req)
    \/ \E p \in SendProcs : SendGate(p)
    \/ \E p \in SendProcs : \E j \in DOMAIN send[p].st : SendComplete(p, j, 201)
    \/ \E p \in SendProcs : SendNextBatch(p)
    \/ \E p \in SendProcs : SendReturn(p)
    \/ \E p \in DirectProcs, app \in Apps : DirectCall(p, app, "https://push/1")
    \/ \E p \in DirectProcs, statusCode \in {201, 410, NoStatusCode} :
            DirectComplete(p, statusCode)
    \/ \E p \in DirectProcs : DirectReturn(p)

SpecVapid == InitDispatch /\ [][NextVapid]_vars

----------------------------------------------------------------------------
(* One send request under every answer of the push service and a store that
   may fail the pruning delete *)

\* One target, three targets in two batches, one own and one foreign id,
\* four targets in two full batches
FaultRequests == {Ids({1}), Ids({1, 2, 5}), Ids({1, 4}), Ids({1, 2, 3, 5})}

NextFaults ==
    \/ \E app \in Apps, req \in FaultRequests : SendResolve("s1", app, req)
    \/ SendGate("s1")
    \/ \E j \in DOMAIN send["s1"].st, statusCode \in FaultOutcomes :
            SendComplete("s1", j, statusCode)
    \/ \E j \in DOMAIN send["s1"].st : SendPrune("s1", j)
    \/ \E j \in DOMAIN send["s1"].st : SendPruneFails("s1", j)
    \/ SendNextBatch("s1")
    \/ SendReturn("s1")

SpecFaults == InitDispatch /\ [][NextFaults]_vars

\* The handler's own steps always run when they can (the event loop and the
\* store answer); nothing obliges the push service to answer a request, and
\* the call of webPush.sendNotification sets no timeout.
SpecUnanswered ==
    /\ InitDispatch
    /\ [][NextFaults]_vars
    /\ WF_vars(SendGate("s1"))
    /\ WF_vars(\E j \in DOMAIN send["s1"].st : SendPrune("s1", j))
    /\ WF_vars(SendNextBatch("s1"))
    /\ WF_vars(SendReturn("s1"))

----------------------------------------------------------------------------
(* src/db/subscriptions.ts and src/routes/subscriptions.ts: the SQLite generation *)

LegacyRow(id, appId, endpoint, p256dh, auth, t) ==
    [id |-> id, appId |-> appId, endpoint |-> endpoint, p256dh |-> p256dh,
     auth |-> auth, createdAt |-> t]

\* INSERT OR REPLACE INTO subscriptions (id, app_id, endpoint, p256dh, auth):
\* rows that collide on id or on UNIQUE(app_id, endpoint) are deleted, then the
\* new row is inserted
InsertOrReplace(rows, new) ==
    {r \in rows : r.id # new.id /\ ~(r.appId = new.appId /\ r.endpoint = new.endpoint)}
        \cup {new}

\* router.post('/'): the checks on endpoint and keys, then createSubscription
LegacySubscribe(app, endpoint, p256dh, auth) ==
    /\ calls < MaxCalls
    /\ calls' = calls + 1
    /\ IF endpoint = "" \/ p256dh = NullKey \/ auth = NullKey
          \/ endpoint \notin ValidUrls
       THEN UNCHANGED <<legacy, uuid>>
       ELSE /\ uuid' = uuid + 1
            /\ legacy' = InsertOrReplace(legacy,
                    LegacyRow(uuid + 1, app, endpoint, p256dh, auth, now))
    /\ UNCHANGED <<subscriptions, rate_limit_logs, now, sub, send, rlReturns,
                   vapidDetails, direct, b64, legacyVars>>

\* router.delete('/:id'): 404, 403 or deleteSubscription(id)
LegacyDelete(app, id) ==
    /\ calls < MaxCalls
    /\ calls' = calls + 1
    /\ IF \E r \in legacy : r.id = id /\ r.appId = app
       THEN legacy' = {r \in legacy : r.id # id}
       ELSE legacy' = legacy
    /\ UNCHANGED <<subscriptions, rate_limit_logs, now, uuid, sub, send, rlReturns,
                   vapidDetails, direct, b64, legacyVars>>

NextLegacy ==
    \/ Tick
    \/ \E app \in Apps, e \in {"https://push/1", "https://push/2", "push/1", ""},
          k \in {<<K1, S1>>, <<K2, S2>>, <<K1, NullKey>>} :
            LegacySubscribe(app, e, k[1], k[2])
    \/ \E app \in Apps, id \in 1..uuid : LegacyDelete(app, id)

SpecLegacy == Init /\ [][NextLegacy]_vars

----------------------------------------------------------------------------
(* src/db/vapidKeys.ts, src/services/notifications.ts and the send route of *)
(* the SQLite generation (routes/notifications.ts, api/notifications.ts)    *)

\* webPush.generateVAPIDKeys(): a pair that differs from every stored one
generateVapidKeys(keys) == Len(keys) + 1

\* A key store that generates a pair on every call
AlwaysCreates(keys) ==
    [table |-> Append(keys, [id |-> Len(keys) + 1,
                             public_key |-> generateVapidKeys(keys)]),
     publicKey |-> generateVapidKeys(keys)]

\* SELECT ... FROM vapid_keys ORDER BY id DESC LIMIT 1; if a row exists its
\* pair is returned, else a new pair is generated, inserted and returned
getOrCreateVapidKeys(keys) ==
    IF keys # <<>>
    THEN [table |-> keys, publicKey |-> keys[Len(keys)].public_key]
    ELSE [table |-> Append(keys, [id |-> Len(keys) + 1,
                                  public_key |-> generateVapidKeys(keys)]),
          publicKey |-> generateVapidKeys(keys)]

\* getVapidPublicKey(), behind GET /api/vapid/public-key
GetVapidPublicKey ==
    /\ calls < MaxCalls
    /\ calls' = calls + 1
    /\ vapid_keys' = getOrCreateVapidKeys(vapid_keys).table
    /\ keyReturns' = Append(keyReturns, getOrCreateVapidKeys(vapid_keys).publicKey)
    /\ UNCHANGED <<subscriptions, rate_limit_logs, now, uuid, sub, send, rlReturns,
                   legacy, vapidDetails, direct, b64, vapidConfigured, lsend>>

\* ensureVapidConfigured(): the first delivery of a process reads the pair
ensureVapidConfigured ==
    IF vapidConfigured.configured
    THEN UNCHANGED <<vapid_keys, keyReturns, vapidConfigured>>
    ELSE /\ vapid_keys' = getOrCreateVapidKeys(vapid_keys).table
         /\ keyReturns' = Append(keyReturns,
                                 getOrCreateVapidKeys(vapid_keys).publicKey)
         /\ vapidConfigured' =
                [configured |-> TRUE,
                 publicKey |-> getOrCreateVapidKeys(vapid_keys).publicKey]

\* resetVapidConfig()
ResetVapidConfig ==
    /\ vapidConfigured.configured
    /\ vapidConfigured' = [vapidConfigured EXCEPT !.configured = FALSE]
    /\ UNCHANGED <<subscriptions, rate_limit_logs, now, uuid, sub, send, rlReturns,
                   calls, legacy, vapidDetails, direct, b64, vapid_keys,
                   keyReturns, lsend>>

\* getSubscriptionById(id): the rows with that id (none or one)
LegacyById(rows, id) == {r \in rows : r.id = id}

\* A route that serves any stored subscription
AnyOwner(subscription, app) == TRUE

\* subscription.appId === app.id
LegacyOwned(subscription, app) == subscription.appId = app

\* The response of the route
Respond(status, error) ==
    lsend' = [lsend EXCEPT !.pc = "done", !.status = status, !.error = error]

\* router.post('/send') up to its await: 400 on a bad payload, then by
\* subscriptionId 404 / 403 / sendNotification, else directly by endpoint and
\* keys, else 400.  The caller is authenticated and below the 60 requests
\* per minute of notificationLimiter.
LegacySendCall(app, req) ==
    /\ lsend.pc = "idle"
    /\ calls < MaxCalls
    /\ calls' = calls + 1
    /\ IF ~req.payload
       THEN /\ lsend' = [IdleLegacySend EXCEPT !.pc = "done", !.app = app,
                            !.req = req, !.status = 400,
                            !.error = "Invalid notification payload. Required: title (string)"]
            /\ UNCHANGED <<vapid_keys, keyReturns, vapidConfigured>>
       ELSE IF req.subscriptionId # 0
       THEN IF LegacyById(legacy, req.subscriptionId) = {}
            THEN /\ lsend' = [IdleLegacySend EXCEPT !.pc = "done", !.app = app,
                                 !.req = req, !.status = 404,
                                 !.error = "Subscription not found"]
                 /\ UNCHANGED <<vapid_keys, keyReturns, vapidConfigured>>
            ELSE LET subscription ==
                        CHOOSE r \in LegacyById(legacy, req.subscriptionId) : TRUE
                 IN  IF ~LegacyOwned(subscription, app)
                     THEN /\ lsend' = [IdleLegacySend EXCEPT !.pc = "done",
                                          !.app = app, !.req = req,
                                          !.status = 403,
                                          !.error = "Access denied"]
                          /\ UNCHANGED <<vapid_keys, keyReturns, vapidConfigured>>
                     ELSE /\ ensureVapidConfigured
                          /\ lsend' = [IdleLegacySend EXCEPT !.pc = "sending",
                                          !.app = app, !.req = req,
                                          !.subscription = subscription,
                                          !.transport = 1]
       ELSE IF req.direct
       THEN /\ ensureVapidConfigured
            /\ lsend' = [IdleLegacySend EXCEPT !.pc = "direct", !.app = app,
                            !.req = req, !.transport = 1]
       ELSE /\ lsend' = [IdleLegacySend EXCEPT !.pc = "done", !.app = app,
                            !.req = req, !.status = 400,
                            !.error = "Either subscriptionId or (endpoint + keys.p256dh + keys.auth) is required"]
            /\ UNCHANGED <<vapid_keys, keyReturns, vapidConfigured>>
    /\ UNCHANGED <<subscriptions, rate_limit_logs, now, uuid, sub, send, rlReturns,
                   legacy, vapidDetails, direct, b64>>

\* sendNotification after webPush.sendNotification settled: 200, or 502
\* after deleteSubscription(subscription.id) when the answer was 404 / 410
LegacySendComplete(statusCode) ==
    /\ lsend.pc = "sending"
    /\ IF statusCode = 201
       THEN /\ Respond(200, "")
            /\ legacy' = legacy
       ELSE /\ Respond(502, "err.message")
            /\ legacy' = IF Gone(statusCode)
                         THEN legacy \ LegacyById(legacy, lsend.subscription.id)
                         ELSE legacy
    /\ UNCHANGED <<subscriptions, rate_limit_logs, now, uuid, sub, send, rlReturns,
                   calls, vapidDetails, direct, b64, vapid_keys, keyReturns,
                   vapidConfigured>>

\* sendNotificationDirect after webPush.sendNotification settled: 200 or 502
LegacyDirectComplete(statusCode) ==
    /\ lsend.pc = "direct"
    /\ IF statusCode = 201 THEN Respond(200, "") ELSE Respond(502, "err.message")
    /\ UNCHANGED <<subscriptions, rate_limit_logs, now, uuid, sub, send, rlReturns,
                   calls, legacy, vapidDetails, direct, b64, vapid_keys,
                   keyReturns, vapidConfigured>>

\* The response is written; the route serves its next request
LegacySendReturn ==
    /\ lsend.pc = "done"
    /\ lsend' = IdleLegacySend
    /\ UNCHANGED <<subscriptions, rate_limit_logs, now, uuid, sub, send, rlReturns,
                   calls, legacy, vapidDetails, direct, b64, vapid_keys,
                   keyReturns, vapidConfigured>>

LegacyRequests ==
    {[subscriptionId |-> id, payload |-> ok, direct |-> d] :
        id \in 0..2, ok \in BOOLEAN, d \in BOOLEAN}

NextLegacySend ==
    \/ \E app \in Apps, e \in {"https://push/1", "https://push/2"} :
            LegacySubscribe(app, e, K1, S1)
    \/ \E app \in Apps, id \in 1..uuid : LegacyDelete(app, id)
    \/ \E app \in Apps, req \in LegacyRequests : LegacySendCall(app, req)
    \/ \E statusCode \in Outcomes : LegacySendComplete(statusCode)
    \/ \E statusCode \in {201, 500} : LegacyDirectComplete(statusCode)
    \/ LegacySendReturn
    \/ GetVapidPublicKey
    \/ ResetVapidConfig

SpecLegacySend == Init /\ [][NextLegacySend]_vars

----------------------------------------------------------------------------
(* Properties *)

SameKey(a, b) == a.appId = b.appId /\ a.endpoint = b.endpoint

Max(a, b) == IF a > b THEN a ELSE b

\* A subscribe request executes its INSERT ... ON CONFLICT in this step
Inserts(p) == sub[p].pc = "insert" /\ sub'[p].pc = "done"

\* A send request resolves its targets in this step
Resolves(p) == send[p].pc = "idle" /\ send'[p].pc # "idle"

\* The deliveries of a send request that were handed to the push service
Attempted(p) == {j \in DOMAIN send[p].st : send[p].st[j].s # "pending"}

NaturalKey == \A a, b \in subscriptions : SameKey(a, b) => a = b

UpsertIsCurrent ==
    \A p \in SubProcs : Inserts(p) =>
        LET rows == {r \in subscriptions' :
                        r.appId = sub[p].app /\ r.endpoint = sub[p].data.endpoint}
        IN  /\ Cardinality(rows) = 1
            /\ \A r \in rows : r.p256dh = sub[p].data.p256dh
                               /\ r.auth = sub[p].data.auth

\* C1: under every interleaving of subscribe, Delete, DeleteByEndpoint and
\* pruning, the registry holds at most one row per (tenantId, endpoint), and
\* right after an upsert there is exactly one row of its key, holding the
\* secrets of that call.
C1_OneRowPerNaturalKey == []NaturalKey /\ [][UpsertIsCurrent]_vars

\* A re-subscription with new secrets has replaced the row of an endpoint
\* while another subscribe request for the same endpoint is still in flight.
C1_Witness ==
    \E p, q \in SubProcs :
        /\ sub[p].pc = "done" /\ sub[p].status = 201
        /\ sub[p].row.id # sub[p].id
        /\ sub[p].row.p256dh = P256dhKey(K2)
        /\ sub[p].row \in subscriptions
        /\ sub[q].pc = "insert"
        /\ sub[q].app = sub[p].app
        /\ sub[q].data.endpoint = sub[p].data.endpoint

\* What the claim expects an upsert on an existing row to return and store
ReplacedRow(old, data) ==
    [id |-> old.id, appId |-> old.appId, endpoint |-> old.endpoint,
     p256dh |-> data.p256dh, auth |-> data.auth,
     userId |-> OrNull(data.userId), channelId |-> OrNull(data.channelId),
     metadata |-> MetadataJson(data.metadata),
     createdAt |-> old.createdAt, expiresAt |-> data.expirationTime]

UpsertKeepsIdentifier ==
    /\ \A old \in legacy : \A new \in legacy' : SameKey(old, new) => new.id = old.id
    /\ \A old \in subscriptions : \A new \in subscriptions' :
            SameKey(old, new) => new.id = old.id

UpsertReplacesFields ==
    \A p \in SubProcs : Inserts(p) =>
        \A old \in subscriptions :
            (old.appId = sub[p].app /\ old.endpoint = sub[p].data.endpoint) =>
                /\ sub'[p].row = ReplacedRow(old, sub[p].data)
                /\ sub'[p].row \in subscriptions'

\* C2: createSubscription on a (tenantId, endpoint) that already has a row
\* keeps the identifier of that row (in both generations of the registry) and
\* replaces every mutable field by the value of the new call.
C2_UpsertPreservesIdentifier == [][UpsertKeepsIdentifier /\ UpsertReplacesFields]_vars

\* C3: the calls of checkAndIncrementRateLimit for one (tenant, action, window)
\* return the counts 1..N, each once; exactly max(0, N - limit) of them are
\* rejected, namely those whose count exceeds the limit; the stored counter is
\* N, rejected calls included.
C3_CountsAreOneToN ==
    \A k \in rlReturns :
        LET same == {r \in rlReturns :
                        SameWindow(r, k.appId, k.action, k.windowStart)}
            N == Cardinality(same)
        IN  /\ {r.current : r \in same} = 1..N
            /\ Cardinality({r \in same : ~r.allowed}) = Max(0, N - k.limit)
            /\ \A r \in same : r.allowed <=> r.current <= k.limit
            /\ RateLimitCount(rate_limit_logs, k.appId, k.action, k.windowStart) = N

\* The third call of a window whose limit is 2 has been rejected with count 3
\* while the call that was counted second is still delivering.
C3_Witness ==
    \E p, q \in SendProcs :
        /\ send[p].pc = "done" /\ send[p].status = 429
        /\ send[p].check.current = 3 /\ send[p].check.limit = 2
        /\ send[q].pc = "sending" /\ send[q].check.current = 2
        /\ send[q].app = send[p].app /\ send[q].action = send[p].action
        /\ send[q].windowStart = send[p].windowStart

\* C4: in one window at most maxNotificationsPerMinute send requests of a
\* tenant proceed to delivery, whatever their number of targets.
C4_FirstLProceed ==
    \A k \in rlReturns :
        Cardinality({r \in rlReturns : r.appId = k.appId
                        /\ r.windowStart = k.windowStart /\ r.allowed})
            <= RateLimitOf(k.appId).maxNotificationsPerMinute

RejectedCallStops ==
    \A p \in SendProcs : ~send[p].check.allowed =>
        /\ send[p].pc = "done" /\ send[p].status = 429
        /\ Attempted(p) = {}
        /\ RateLimitCount(rate_limit_logs, send[p].app, send[p].action,
                          send[p].windowStart) >= send[p].check.current

RejectionChangesCounterOnly ==
    \A p \in SendProcs : (send[p].pc = "gate" /\ ~send'[p].check.allowed) =>
        /\ subscriptions' = subscriptions
        /\ RateLimitCount(rate_limit_logs', send[p].app, send[p].action,
                          send'[p].windowStart)
            = 1 + RateLimitCount(rate_limit_logs, send[p].app, send[p].action,
                                 send'[p].windowStart)

\* C5: a send request whose gate returned allowed = false ends with 429
\* RATE_LIMIT_EXCEEDED, hands no delivery to the push service, leaves the
\* subscriptions table as it was, and its increment of the counter stands.
C5_RejectedSendDoesNothing ==
    []RejectedCallStops /\ [][RejectionChangesCounterOnly]_vars

C5_Witness ==
    \E p \in SendProcs :
        /\ send[p].pc = "done" /\ send[p].status = 429
        /\ Len(send[p].targets) > 0
        /\ send[p].check.current = send[p].check.limit + 1

EmptySendReturns ==
    \A p \in SendProcs : (Resolves(p) /\ Len(send'[p].targets) = 0) =>
        /\ send'[p].pc = "done" /\ send'[p].status = 200
        /\ send'[p].result = [sent |-> 0, failed |-> 0, total |-> 0]
        /\ send'[p].st = <<>>
        /\ rate_limit_logs' = rate_limit_logs
        /\ rlReturns' = rlReturns

EmptySendNeverGates ==
    \A p \in SendProcs :
        (send[p].pc # "idle" /\ Len(send[p].targets) = 0) =>
            send[p].pc = "done" /\ send[p].check = NoCheck

\* C6: a send request that resolves no target returns {sent: 0, failed: 0,
\* total: 0, results: []} with status 200, without a call of
\* checkAndIncrementRateLimit and without a delivery.
C6_EmptySendIsFree == []EmptySendNeverGates /\ [][EmptySendReturns]_vars

\* An empty send has returned while a counter of its tenant and window exists.
C6_Witness ==
    \E p \in SendProcs :
        /\ send[p].pc = "done" /\ send[p].status = 200
        /\ Len(send[p].targets) = 0
        /\ \E r \in rate_limit_logs :
                r.appId = send[p].app /\ r.windowStart = WindowStart(send[p].resolvedAt)

OwnRows(app, ids) == {r \in subscriptions : r.id \in ids /\ r.appId = app}

TargetsAreOwn ==
    \A p \in SendProcs : \A j \in DOMAIN send[p].targets :
        send[p].targets[j].appId = send[p].app

DeletesAreOwn ==
    \A r \in subscriptions \ subscriptions' :
        \E p \in SendProcs : \E j \in DOMAIN send[p].targets :
            /\ send[p].st[j].s = "deleting"
            /\ send[p].targets[j].id = r.id
            /\ r.appId = send[p].app

IdsResolveToOwnRows ==
    \A p \in SendProcs :
        (Resolves(p) /\ send'[p].req.subscriptionIds # {}) =>
            LET own == OwnRows(send'[p].app, send'[p].req.subscriptionIds)
            IN  /\ Range(send'[p].targets) = own
                /\ own = {} =>
                    /\ send'[p].pc = "done" /\ send'[p].status = 200
                    /\ send'[p].result = [sent |-> 0, failed |-> 0, total |-> 0]
                    /\ rate_limit_logs' = rate_limit_logs

\* C7: of the ids in subscriptionIds only the rows of the calling tenant
\* become targets; a row of another tenant is neither delivered to nor
\* deleted, and a call whose ids are all foreign or unknown returns the empty
\* result without touching the rate-limit counter.
C7_ForeignIdsAreDropped ==
    []TargetsAreOwn /\ [][DeletesAreOwn /\ IdsResolveToOwnRows]_vars

\* A send to one own and one foreign id has finished with a single delivery,
\* answered 410, and the foreign row is still stored.
C7_Witness ==
    \E p \in SendProcs :
        /\ send[p].pc = "done" /\ send[p].status = 200
        /\ send[p].app = "a1" /\ send[p].req.subscriptionIds = {1, 4}
        /\ send[p].result = [sent |-> 0, failed |-> 1, total |-> 1]
        /\ send[p].st[1].statusCode = 410
        /\ \E r \in subscriptions : r.id = 4 /\ r.appId = "a2"
        /\ \A r \in subscriptions : r.id # 1

\* The rows a filtered or broadcast send is to reach: those of the tenant,
\* not expired at time t, that carry every label the request supplies
Wanted(r, app, req, t) ==
    /\ r.appId = app
    /\ (r.expiresAt = NoTime \/ r.expiresAt > t)
    /\ Truthy(req.userId) => r.userId = req.userId
    /\ Truthy(req.channelId) => r.channelId = req.channelId

Finished(p) ==
    send[p].pc = "done" /\ send[p].status = 200 /\ send[p].req.subscriptionIds = {}

AttemptedRows(p) == {send[p].targets[j] : j \in Attempted(p)}

\* C8: a finished send with userId and / or channelId and no subscriptionIds
\* has attempted delivery to exactly the live rows of the tenant that match
\* every supplied filter.
C8_FilterTargetsExactlyMatching ==
    \A p \in SendProcs :
        (Finished(p) /\ (Truthy(send[p].req.userId) \/ Truthy(send[p].req.channelId))) =>
            /\ \A r \in AttemptedRows(p) :
                    Wanted(r, send[p].app, send[p].req, send[p].resolvedAt)
            /\ \A r \in subscriptions :
                    Wanted(r, send[p].app, send[p].req, send[p].resolvedAt)
                        => r \in AttemptedRows(p)

\* C9: no send, in any targeting mode, attempts delivery to a row whose
\* expiresAt is earlier than the time its targets were resolved.
C9_NoDeliveryToExpired ==
    \A p \in SendProcs : \A r \in AttemptedRows(p) :
        ~(r.expiresAt # NoTime /\ r.expiresAt < send[p].resolvedAt)

\* C10: a finished send without subscriptionIds, userId and channelId (absent
\* or empty) has attempted delivery to every live row of the tenant.
C10_BroadcastReachesAll ==
    \A p \in SendProcs :
        (Finished(p) /\ ~Truthy(send[p].req.userId) /\ ~Truthy(send[p].req.channelId)) =>
            \A r \in subscriptions :
                Wanted(r, send[p].app, send[p].req, send[p].resolvedAt)
                    => r \in AttemptedRows(p)

Returned(p) == send[p].pc = "done" /\ send[p].status = 200

\* C11: when a send has returned its result, a target is gone from the table
\* exactly if the push service answered 404 or 410 for it, and that target is
\* counted as failed; after any other answer (201, 500, no status code) the
\* row is stored as it was resolved.
C11_PrunedIffGone ==
    \A p \in SendProcs : Returned(p) =>
        \A j \in DOMAIN send[p].targets :
            LET r == send[p].targets[j]
                code == send[p].st[j].statusCode
            IN  /\ send[p].st[j].s = "done"
                /\ code \in {404, 410} =>
                        /\ \A x \in subscriptions : x.id # r.id
                        /\ send[p].result.failed >= 1
                /\ code \notin {404, 410} => r \in subscriptions

\* A send over two batches has returned with one target pruned after 410, one
\* kept after 500 and one kept after a rejection without status code.
C11_Witness ==
    \E p \in SendProcs :
        /\ Returned(p)
        /\ Len(send[p].targets) = 3
        /\ {send[p].st[j].statusCode : j \in 1..3} = {410, 500, NoStatusCode}
        /\ Cardinality(subscriptions) = Cardinality(Catalog) - 1

\* C12: a send that passed the gate ends with the success envelope, one
\* settled result per resolved target, and sent + failed = total = number of
\* resolved targets, whatever the push service answered for each target.
C12_EnvelopeCountsEveryTarget ==
    \A p \in SendProcs :
        (send[p].pc = "done" /\ send[p].check.current > 0 /\ send[p].check.allowed) =>
            /\ send[p].status = 200
            /\ \A j \in DOMAIN send[p].st : send[p].st[j].s = "done"
            /\ send[p].result.total = Len(send[p].targets)
            /\ send[p].result.sent + send[p].result.failed = send[p].result.total

\* C13: when the deleteSubscription issued after a 404 / 410 fails, the send
\* still ends with the result envelope and every target of every batch has
\* been attempted.
C13_FailedPruneIsContained ==
    \A p \in SendProcs :
        (send[p].pc = "done" /\ \E j \in DOMAIN send[p].st : send[p].st[j].s = "rejected") =>
            /\ send[p].status = 200
            /\ \A j \in DOMAIN send[p].st : send[p].st[j].s # "pending"

Issued(p) == {j \in DOMAIN send[p].st : send[p].st[j].s # "pending"}

\* C14: every delivery issued for a tenant by sendNotifications or
\* sendDirectNotification was signed with the VAPID details of that tenant,
\* under every interleaving of the sends of different tenants.
C14_OwnVapidKeys ==
    /\ \A p \in SendProcs : \A j \in Issued(p) : send[p].st[j].vapid = send[p].app
    /\ \A p \in DirectProcs :
            direct[p].pc # "idle" => direct[p].vapid = direct[p].app

\* A delivery of one tenant and a direct delivery of the other are in flight
\* together, the module holding the details of the one configured last.
C14_Witness ==
    \E p \in SendProcs, d \in DirectProcs :
        /\ send[p].pc = "sending" /\ send[p].i > 0
        /\ \E j \in Issued(p) : send[p].st[j].s = "inflight"
        /\ direct[d].pc = "inflight" /\ direct[d].app # send[p].app
        /\ vapidDetails = send[p].app
        /\ \E q \in SendProcs : send[q].pc = "sending" /\ send[q].app # send[p].app

DirectStep == direct' # direct

DirectTouchesNoStore ==
    DirectStep => /\ subscriptions' = subscriptions
                  /\ rate_limit_logs' = rate_limit_logs
                  /\ rlReturns' = rlReturns

DirectReportsOutcome ==
    \A d \in DirectProcs : direct[d].pc = "done" =>
        /\ ~direct[d].result.raised
        /\ direct[d].result.success <=> direct[d].result.statusCode = 201

\* C15: sendDirectNotification deletes or changes no subscription and creates
\* or increments no rate-limit counter, whatever the push service answers,
\* and hands the answer back as a result value.
C15_DirectChangesNoStore == []DirectReportsOutcome /\ [][DirectTouchesNoStore]_vars

\* A direct send to the endpoint of a stored subscription was answered 410
\* and the subscription is still stored.
C15_Witness ==
    \E d \in DirectProcs :
        /\ direct[d].pc = "done"
        /\ direct[d].result = [success |-> FALSE, statusCode |-> 410, raised |-> FALSE]
        /\ \E r \in subscriptions :
                r.appId = direct[d].app /\ r.endpoint = direct[d].endpoint

\* C16: every send that has passed the gate eventually returns, also when the
\* push service never answers one of its deliveries.
C16_SendEventuallyReturns ==
    \A p \in SendProcs : (send[p].pc = "sending") ~> (send[p].pc = "done")

\* A subscribe body as the claim accepts it: an absolute URL, a public key
\* of exactly 65 bytes and an auth secret of at least 16 bytes, each in one
\* of the two alphabets
WellFormed(body) ==
    /\ body.endpoint \in ValidUrls
    /\ body.p256dh.alphabet \in {"base64", "base64url"} /\ body.p256dh.len = 65
    /\ body.auth.alphabet \in {"base64", "base64url"} /\ body.auth.len >= 16

Canonical(k, raw) ==
    k.alphabet = "base64url" /\ k.bytes = raw.bytes /\ k.len = raw.len

AtCeiling(app) ==
    Cardinality({r \in subscriptions : r.appId = app})
        >= RateLimitOf(app).maxSubscriptions

MalformedIsRejected ==
    \A p \in SubProcs, app \in Apps, body \in BoundaryBodies :
        (SubscribeCount(p, app, body) /\ ~WellFormed(body)) =>
            /\ sub'[p].pc = "done"
            /\ sub'[p].status = IF AtCeiling(app) THEN 429 ELSE 422
            /\ subscriptions' = subscriptions

WellFormedIsAccepted ==
    \A p \in SubProcs, app \in Apps, body \in BoundaryBodies :
        (SubscribeCount(p, app, body) /\ WellFormed(body) /\ ~AtCeiling(app)) =>
            /\ sub'[p].pc = "insert"
            /\ Canonical(sub'[p].data.p256dh, body.p256dh)
            /\ Canonical(sub'[p].data.auth, body.auth)

StoredKeysAreCanonical ==
    \A r \in subscriptions :
        /\ r.p256dh.alphabet = "base64url" /\ r.p256dh.len = 65
        /\ r.auth.alphabet = "base64url" /\ r.auth.len >= 16
        /\ r.endpoint \in ValidUrls

\* C17: a subscribe request with a malformed endpoint, a public key that does
\* not decode to exactly 65 bytes or an auth secret of fewer than 16 bytes is
\* rejected (422; 429 when the tenant is at its ceiling, which is checked
\* first) and changes no row; with 65 and at least 16 bytes it is accepted
\* and the stored keys are the canonical encodings.
C17_MalformedSubscribeRejected ==
    []StoredKeysAreCanonical /\ [][MalformedIsRejected /\ WellFormedIsAccepted]_vars

\* A request with a 64-byte public key for an endpoint the tenant has already
\* registered was answered 422 and the registered row still holds its key.
C17_Witness ==
    \E p \in SubProcs :
        /\ sub[p].pc = "done" /\ sub[p].status = 422
        /\ sub[p].data.p256dh.len = 64 /\ sub[p].data.auth.len = 16
        /\ \E r \in subscriptions :
                /\ r.appId = sub[p].app /\ r.endpoint = sub[p].data.endpoint
                /\ r.p256dh = Key("k", 65, "base64url")
                /\ r.auth.alphabet = "base64url"

\* The unpadded '-' '_' encoding of some bytes: only characters of that
\* alphabet, not one character beyond a multiple of four, no bits set beyond
\* the last whole byte
Value(c) == IF c = Minus THEN 62 ELSE IF c = Underscore THEN 63 ELSE c

IsCanonicalText(t) ==
    /\ Len(t) > 0
    /\ \A i \in 1..Len(t) : t[i] \in (0..61) \cup {Minus, Underscore}
    /\ Len(t) % 4 # 1
    /\ Len(t) % 4 = 2 => Value(t[Len(t)]) % 16 = 0
    /\ Len(t) % 4 = 3 => Value(t[Len(t)]) % 4 = 0

CanonicalIsFixed ==
    b64.pc = "once" =>
        /\ IsCanonicalText(b64.input) =>
                b64.strict = b64.input /\ b64.maybe = b64.input
        /\ b64.strict # NullText =>
                IsCanonicalText(b64.strict) /\ b64.maybe = b64.strict

SecondPassIsNoOp ==
    (b64.pc = "once" /\ b64'.pc \in {"twice", "other"}) =>
        b64'.strict = b64.strict /\ b64'.maybe = b64.maybe

\* C18: normalizing twice gives what normalizing once gives, a text already in
\* canonical form comes back unchanged, and the '+' '/' padded and the '-' '_'
\* encodings of the same bytes normalize to one canonical text; for
\* normalizeBase64Url (strict) and normalizeBase64UrlMaybe (tolerant) alike.
C18_NormalizationIdempotent == []CanonicalIsFixed /\ [][SecondPassIsNoOp]_vars

\* '+/A=' was normalized to '-_A' and the second pass returned '-_A' again.
C18_Witness ==
    /\ b64.pc = "twice"
    /\ b64.input = <<Plus, Slash, 0, Equals>>
    /\ b64.strict = <<Minus, Underscore, 0>>
    /\ b64.maybe = <<Minus, Underscore, 0>>

RowsOf(app) == {r \in subscriptions : r.appId = app}

\* C19: while the subscribe requests of one tenant do not overlap, the tenant
\* never has more rows than its maxSubscriptions, under subscribe, delete and
\* pruning sends.
C19_CeilingHolds ==
    \A app \in Apps : Cardinality(RowsOf(app)) <= RateLimitOf(app).maxSubscriptions

\* A tenant at its ceiling had a subscribe request answered 429 while a
\* request of the other tenant was between its count and its insert.
C19_Witness ==
    \E p, q \in SubProcs :
        /\ sub[p].pc = "done" /\ sub[p].status = 429
        /\ Cardinality(RowsOf(sub[p].app)) = RateLimitOf(sub[p].app).maxSubscriptions
        /\ sub[q].pc = "insert" /\ sub[q].app # sub[p].app

\* C20: within one day, the sends of an app that pass the gate never number
\* more than its maxNotificationsPerDay.
C20_DailyLimitEnforced ==
    \A k \in rlReturns :
        Cardinality({r \in rlReturns :
                        /\ r.appId = k.appId /\ r.allowed
                        /\ r.windowStart \div DayMs = k.windowStart \div DayMs})
            <= RateLimitOf(k.appId).maxNotificationsPerDay

\* The send route takes up a request in this step
LegacyStarts == lsend.pc = "idle" /\ lsend'.pc # "idle"

\* The stored rows a request names that its caller may not send to: none
\* when the id does not exist
NamedRows(rows, req) == LegacyById(rows, req.subscriptionId)

LegacyRefused(status, error) ==
    /\ lsend'.pc = "done"
    /\ lsend'.transport = 0
    /\ legacy' = legacy
    /\ lsend'.req.payload => lsend'.status = status /\ lsend'.error = error

\* C21: a single-send request (with a valid payload, which is checked first)
\* that names a subscription id that is not stored is answered 404
\* 'Subscription not found', one that names a subscription of another app is
\* answered 403 'Access denied'; either way the request is finished in that
\* step with no call of the transport and the table unchanged, and a request
\* answered 404 or 403 never reaches the transport.
C21_UnknownOrForeignIdRefused ==
    /\ [][LegacyStarts /\ lsend'.req.subscriptionId # 0 =>
            /\ NamedRows(legacy, lsend'.req) = {} =>
                    LegacyRefused(404, "Subscription not found")
            /\ (\E r \in NamedRows(legacy, lsend'.req) : r.appId # lsend'.app) =>
                    LegacyRefused(403, "Access denied")]_vars
    /\ [](lsend.status \in {403, 404} => lsend.pc = "done" /\ lsend.transport = 0)

\* A request was answered 403 while the subscription it names, of the other
\* app, is stored.
C21_Witness ==
    /\ lsend.pc = "done" /\ lsend.status = 403 /\ lsend.error = "Access denied"
    /\ \E r \in legacy : r.id = lsend.req.subscriptionId /\ r.appId # lsend.app

\* C22: whatever getVapidPublicKey / getOrCreateVapidKeys calls were made on
\* the database, one after another, the table vapid_keys holds at most one
\* pair and every call returned the public key the first call returned.
C22_KeyPairCreatedOnce ==
    /\ Len(vapid_keys) <= 1
    /\ \A i \in DOMAIN keyReturns :
            /\ keyReturns[i] = keyReturns[1]
            /\ vapid_keys # <<>> /\ keyReturns[i] = vapid_keys[1].public_key

\* The pair was read by the public-key route and by a delivery's
\* ensureVapidConfigured, three times in all.
C22_Witness ==
    /\ Len(keyReturns) >= 3
    /\ vapidConfigured.configured
    /\ Len(vapid_keys) = 1

\* The calls of checkAndIncrementRateLimit made for a tenant in a window
GateCalls(app, w) == {r \in rlReturns : r.appId = app /\ r.windowStart = w}

\* The tenant's two send counters of a window, added up
SendCounters(logs, app, w) ==
    RateLimitCount(logs, app, "notification", w)
        + RateLimitCount(logs, app, "broadcast", w)

\* A send request executes checkAndIncrementRateLimit in this step
Gates(p) == send[p].pc = "gate" /\ send'[p].pc # "gate"

\* The counter a send with n resolved targets belongs to
CounterOf(n) == IF n > 1 THEN "broadcast" ELSE "notification"

GateCountsOnce ==
    \A p \in SendProcs : Gates(p) =>
        LET app == send[p].app
            w == WindowStart(now)
            a == CounterOf(Len(send[p].targets))
        IN  /\ \A j \in DOMAIN send[p].targets : send[p].targets[j].appId = app
            /\ RateLimitCount(rate_limit_logs', app, a, w)
                    = RateLimitCount(rate_limit_logs, app, a, w) + 1
            /\ \A r \in rate_limit_logs :
                    ~SameWindow(r, app, a, w) => r \in rate_limit_logs'
            /\ Cardinality(rate_limit_logs') <= Cardinality(rate_limit_logs) + 1
            /\ send'[p].check.limit = RateLimitOf(app).maxNotificationsPerMinute
            /\ send'[p].check.current = RateLimitCount(rate_limit_logs', app, a, w)

OnlyGatesCount ==
    (\A p \in SendProcs : ~Gates(p)) => rate_limit_logs' = rate_limit_logs

ResolvedSendsGate ==
    \A p \in SendProcs : Resolves(p) =>
        (send'[p].pc = "gate") = (Len(send'[p].targets) >= 1)

CountersAddUp ==
    \A app \in Apps : \A w \in 0..MaxTime :
        SendCounters(rate_limit_logs, app, w) = Cardinality(GateCalls(app, w))

\* C23: a send request that resolved at least one target goes through the
\* gate, and its one call of checkAndIncrementRateLimit adds one to one
\* counter of its tenant and the current window: 'broadcast' when more than
\* one target (all of them the tenant's own) was resolved, 'notification'
\* when one; the count is compared with maxNotificationsPerMinute; no other
\* step of a send changes a counter.  So the two send counters of a tenant
\* and a window add up to the number of gate calls made for them.
C23_OneGateCallPerSend ==
    /\ [][GateCountsOnce /\ OnlyGatesCount /\ ResolvedSendsGate]_vars
    /\ []CountersAddUp

\* Tenant a1 named its own subscription and one of the other tenant: the
\* call was counted under 'notification', next to a 'broadcast' call of the
\* same window.
C23_Witness ==
    \E p \in SendProcs :
        /\ send[p].pc \in {"sending", "done"} /\ send[p].check.limit > 0
        /\ Cardinality(send[p].req.subscriptionIds) = 2
        /\ Len(send[p].targets) = 1
        /\ send[p].action = "notification"
        /\ RateLimitCount(rate_limit_logs, send[p].app, "broadcast",
                          send[p].windowStart) >= 1
        /\ SendCounters(rate_limit_logs, send[p].app, send[p].windowStart) >= 2

\* The batch a target belongs to: subscriptions.slice(i, i + CONCURRENCY_LIMIT)
\* for i = 0, CONCURRENCY_LIMIT, 2 * CONCURRENCY_LIMIT, ...
BatchOf(j) == (j - 1) \div CONCURRENCY_LIMIT

\* The deliveries of a send that are at the push service
InFlight(p) == {j \in DOMAIN send[p].st : send[p].st[j].s = "inflight"}

AtMostOneBatchInFlight ==
    \A p \in SendProcs :
        /\ Cardinality(InFlight(p)) <= CONCURRENCY_LIMIT
        /\ \A j, k \in InFlight(p) : BatchOf(j) = BatchOf(k)

BatchesInTurn ==
    \A p \in SendProcs : \A j, k \in DOMAIN send[p].st :
        (send[p].st[j].s # "pending" /\ BatchOf(k) < BatchOf(j)) =>
            send[p].st[k].s = "done"

StartsAfterPreviousBatch ==
    \A p \in SendProcs :
        \A j \in DOMAIN send[p].st \cap DOMAIN send'[p].st :
            (send[p].st[j].s = "pending" /\ send'[p].st[j].s = "inflight") =>
                \A k \in DOMAIN send[p].st :
                    BatchOf(k) < BatchOf(j) => send[p].st[k].s = "done"

\* C24: the deliveries of a send are started batch by batch, a batch being
\* CONCURRENCY_LIMIT consecutive targets: a delivery is started only when
\* every delivery of the batches before its own has completed, answered 201
\* or not, and with its pruning done; so the deliveries in flight are of one
\* batch and at most CONCURRENCY_LIMIT.
C24_BatchesRunInTurn ==
    /\ [](AtMostOneBatchInFlight /\ BatchesInTurn)
    /\ [][StartsAfterPreviousBatch]_vars

\* The second batch is in flight after a first batch whose deliveries were
\* answered 410 (and pruned) and 500.
C24_Witness ==
    /\ send["s1"].pc = "sending" /\ send["s1"].i = CONCURRENCY_LIMIT
    /\ Len(send["s1"].st) = 4
    /\ send["s1"].st[1].statusCode = 410 /\ send["s1"].st[2].statusCode = 500
    /\ InFlight("s1") = {3, 4}

ResultsInTargetOrder ==
    \A p \in SendProcs :
        /\ Len(send[p].results) <= Len(send[p].targets)
        /\ \A k \in DOMAIN send[p].results :
                /\ send[p].results[k].subscriptionId = send[p].targets[k].id
                /\ send[p].results[k].statusCode = send[p].st[k].statusCode
        /\ (send[p].pc = "done" /\ send[p].status = 200) =>
                Len(send[p].results) = Len(send[p].targets)

\* C25: results[k] of a send is the result of its k-th resolved target, in
\* whatever order the deliveries of a batch completed; a send that returned
\* its envelope has one result per target.
C25_ResultsFollowTargets == ResultsInTargetOrder

\* A send of four targets has returned; the two deliveries of its last batch
\* completed in reverse order, and their answers differ.
C25_Witness ==
    /\ send["s1"].pc = "done" /\ send["s1"].status = 200
    /\ Len(send["s1"].results) = 4
    /\ send["s1"].order = <<4, 3>>
    /\ send["s1"].results[3].statusCode = 201
    /\ send["s1"].results[4].statusCode = 410

\* C26: a send that passed the gate and has ended called
\* webPush.sendNotification exactly once for each of its resolved targets,
\* and no target is ever attempted twice.
C26_EachTargetAttemptedOnce ==
    \A p \in SendProcs :
        /\ \A j \in DOMAIN send[p].st : send[p].st[j].attempts <= 1
        /\ (send[p].pc = "done" /\ send[p].status # 429) =>
                \A j \in DOMAIN send[p].st : send[p].st[j].attempts = 1

\* The rows of rate_limit_logs a step created or incremented
Counted == {r \in rate_limit_logs' : r \notin rate_limit_logs}

OneRowPerWindow ==
    \A a, b \in rate_limit_logs :
        SameWindow(a, b.appId, b.action, b.windowStart) => a = b

WindowsAligned ==
    \A r \in rate_limit_logs : r.windowStart % WindowMs = 0 /\ r.count >= 1

GateCountsCurrentWindow ==
    \A p \in SendProcs : Gates(p) =>
        \A r \in Counted :
            /\ r.windowStart % WindowMs = 0
            /\ r.windowStart <= now /\ now < r.windowStart + WindowMs
            /\ \A t \in 0..MaxTime :
                    (r.windowStart = WindowStart(t))
                        <=> (t \div WindowMs = now \div WindowMs)
            /\ send'[p].check.current = r.count
            /\ (\A q \in rate_limit_logs :
                    ~SameWindow(q, r.appId, r.action, r.windowStart))
                        => send'[p].check.current = 1

\* C27: the limiter's windows are fixed: a call at time now counts in the
\* row whose windowStart is the multiple of windowMs with windowStart <= now
\* < windowStart + windowMs, which is the row of a call at time t exactly
\* when floor(t / windowMs) = floor(now / windowMs); rate_limit_logs holds one
\* row per (app, action, windowStart); and the first call of a window
\* returns current = 1.
C27_FixedWindows ==
    /\ [](OneRowPerWindow /\ WindowsAligned)
    /\ [][GateCountsCurrentWindow]_vars

\* After two calls in the window [0, WindowMs), one of them in its second
\* half, the first call of the next window has returned current = 1.
C27_Witness ==
    \E p \in SendProcs :
        /\ send[p].pc = "sending" /\ send[p].check.current = 1
        /\ send[p].windowStart = WindowMs /\ now = WindowMs
        /\ send[p].resolvedAt = WindowMs - 1
        /\ RateLimitCount(rate_limit_logs, send[p].app, send[p].action, 0) = 2
        /\ RateLimitCount(rate_limit_logs, send[p].app, send[p].action,
                          WindowMs) = 1

\* The rows stored for a tenant, expired ones included
StoredFor(rows, app) == {r \in rows : r.appId = app}

\* A subscribe request is taken up in this step
SubscribeStarts(p) == sub[p].pc = "idle" /\ sub'[p].pc # "idle"

SoftCeiling ==
    \A app \in Apps :
        Cardinality(StoredFor(subscriptions, app))
            <= RateLimitOf(app).maxSubscriptions + Cardinality(SubProcs) - 1

ReadAtCeilingNeverInserts ==
    \A p \in SubProcs :
        (SubscribeStarts(p)
         /\ Cardinality(StoredFor(subscriptions, sub'[p].app))
                >= RateLimitOf(sub'[p].app).maxSubscriptions)
            => sub'[p].pc = "done" /\ subscriptions' = subscriptions

InsertersReadBelowCeiling ==
    \A p \in SubProcs :
        (SubscribeStarts(p) /\ sub'[p].pc = "insert") =>
            Cardinality(StoredFor(subscriptions, sub'[p].app))
                < RateLimitOf(sub'[p].app).maxSubscriptions

\* C28: with at most k = 2 subscribe requests in flight (count and insert
\* being two steps), a tenant never holds more than maxSubscriptions + k - 1
\* rows, and a request that read a count at or above maxSubscriptions ends
\* without an insert.
C28_SoftCeiling ==
    /\ []SoftCeiling
    /\ [][ReadAtCeilingNeverInserts /\ InsertersReadBelowCeiling]_vars

\* Tenant a2 (maxSubscriptions 1) holds two rows, inserted by two requests
\* that both read 0, and a third request, for a third endpoint, was rejected.
C28_Witness ==
    /\ Cardinality(StoredFor(subscriptions, "a2")) = 2
    /\ \E p \in SubProcs :
            /\ sub[p].pc = "done" /\ sub[p].app = "a2" /\ sub[p].status = 429
            /\ sub[p].data.endpoint = "https://push/3"

RejectedAtCeiling ==
    \A p \in SubProcs :
        (SubscribeStarts(p)
         /\ Cardinality(StoredFor(subscriptions, sub'[p].app))
                >= RateLimitOf(sub'[p].app).maxSubscriptions)
            => /\ sub'[p].pc = "done" /\ sub'[p].status = 429
               /\ subscriptions' = subscriptions
               /\ uuid' = uuid

RejectedStaysRejected ==
    \A p \in SubProcs : sub[p].status = 429 => sub[p].pc = "done"

\* C29: a subscribe request that finds maxSubscriptions or more rows of its
\* tenant stored, expired rows counted, is answered 429 RATE_LIMIT_EXCEEDED
\* whatever its body is (a body that fails validation too, and one for an
\* endpoint the tenant already has), and no row is written or changed.
C29_CeilingRejectsEveryBody == []RejectedStaysRejected /\ [][RejectedAtCeiling]_vars

\* Tenant a2 is at its ceiling with one row that has expired; a request for
\* that row's endpoint with new secrets was answered 429, and the row still
\* holds the old secrets.
C29_Witness ==
    \E p \in SubProcs : \E r \in subscriptions :
        /\ sub[p].pc = "done" /\ sub[p].status = 429 /\ sub[p].app = "a2"
        /\ sub[p].data.p256dh = K2
        /\ r.appId = "a2" /\ r.endpoint = sub[p].data.endpoint
        /\ r.p256dh = normalizeBase64Url(K1)
        /\ r.expiresAt # NoTime /\ r.expiresAt < now
        /\ StoredFor(subscriptions, "a2") = {r}

\* A send request handles the 404 / 410 of its delivery j in this step
Prunes(p, j) ==
    /\ j \in DOMAIN send[p].st /\ j \in DOMAIN send'[p].st
    /\ send[p].st[j].s = "deleting" /\ send'[p].st[j].s = "done"

\* The stored row has the identifier of the target and other key material
Refreshed(r, target) ==
    /\ r.id = target.id
    /\ r.p256dh # target.p256dh \/ r.auth # target.auth

\* C30: pruning after a 404 / 410 removes the registration the delivery was
\* made to and no other: a row whose key material an upsert has replaced
\* since the send resolved its targets (same identifier) is still stored
\* after the pruning.
C30_PruneSparesRefreshed ==
    [][\A p \in SendProcs : \A j \in DOMAIN send[p].st :
            Prunes(p, j) =>
                \A r \in subscriptions :
                    Refreshed(r, send[p].targets[j]) => r \in subscriptions']_vars


====
